---- MODULE Spec2Model ----
(***************************************************************************)
(* A model of the P2P file-sharing node: the fragmenter of fragment.go     *)
(* (FragmentFile, AssembleFile) and the node of main.go (the inbound       *)
(* handler handleFragmentRequest and UploadFile), with its two unguarded   *)
(* maps StoredFragments and FileMetadata and the DHT it publishes to.      *)
(*                                                                         *)
(* Two specifications share the variables:                                 *)
(*   SpecFrag  the fragmenter alone: a file and a fragment size are drawn  *)
(*             in the initial state, FragmentFile runs, the caller's       *)
(*             fragment slice is handed around (dropped, duplicated,       *)
(*             reordered or altered elements) and AssembleFile runs on it; *)
(*   Spec      the node: UploadFile calls and inbound streams, every       *)
(*             statement that touches a shared map being one step.         *)
(***************************************************************************)
EXTENDS Integers, Sequences, FiniteSets, TLC

\* ------------------------------------------------------------------ bounds
\* Length of the longest file the fragmenter is run on.
MaxFileLen == 3
\* Largest fragment size the fragmenter is run with (sizes 1..MaxFragmentSize).
MaxFragmentSize == 2
\* How many times the caller's slice is altered before AssembleFile is called.
MaxEdits == 2

\* Length of the longest file given to UploadFile.
NodeMaxFileLen == 2
\* How many UploadFile calls are made in one run (any number of them at once).
MaxUploads == 2
\* How many inbound streams are opened in one run (any number of them at once).
MaxStreams == 2
\* How many tasks, calls and streams together, one run starts.
MaxTasks == 3
\* The fragment size of the node: 256 KiB in the program (main.go:99), scaled
\* down to the files of the model.
NodeFragmentSize == 1

\* The values a byte takes in the model.
Byte == {0, 1}

\* ------------------------------------------------------------ pure helpers
Min(a, b) == IF a < b THEN a ELSE b

\* All byte sequences of length 0..n.
BytesUpTo(n) == UNION {[1..k -> Byte] : k \in 0..n}

RECURSIVE Pow(_, _)
Pow(b, e) == IF e = 0 THEN 1 ELSE b * Pow(b, e - 1)

\* crypto/sha256.Sum256: the digest of a byte sequence, a number.  The model's
\* digest is collision free on the sequences of the model, as SHA-256 is
\* taken to be on the inputs of the program: each byte and the length
\* contribute to the value.
RECURSIVE Sum256(_)
Sum256(data) ==
    IF Len(data) = 0 THEN 0
    ELSE (Head(data) + 1) + (Cardinality(Byte) + 1) * Sum256(Tail(data))

HexDigit == <<"0", "1", "2", "3", "4", "5", "6", "7",
              "8", "9", "a", "b", "c", "d", "e", "f">>

\* fmt.Sprintf("%x", digest): lowercase hex, fixed width, most significant
\* digit first (the width of the model's digest is three hex digits).
SprintfHex(digest) ==
    [k \in 1..3 |-> HexDigit[((digest \div Pow(16, 3 - k)) % 16) + 1]]

\* The Hash field FragmentFile computes for a chunk (fragment.go:56).
HashOf(data) == SprintfHex(Sum256(data))

\* The concatenation of the Data fields of a fragment sequence, in order.
RECURSIVE ConcatData(_)
ConcatData(fragments) ==
    IF Len(fragments) = 0 THEN <<>>
    ELSE Head(fragments).Data \o ConcatData(Tail(fragments))

\* ------------------------------------------------------------- fragment.go
\* FragmentFile with the hash taken over the whole file instead of the chunk.
FragmentFile_HashWholeFile(data, filepath, FragmentSize) ==
    LET totalFragments == (Len(data) + FragmentSize - 1) \div FragmentSize
    IN  [k \in 1..totalFragments |->
            LET start == (k - 1) * FragmentSize
                end   == Min(start + FragmentSize, Len(data))
            IN  [Hash           |-> HashOf(data),
                 Data           |-> SubSeq(data, start + 1, end),
                 Index          |-> k - 1,
                 TotalFragments |-> totalFragments,
                 Filename       |-> filepath]]

\* FragmentFile with the fragment count rounded down instead of up.
FragmentFile_FloorCount(data, filepath, FragmentSize) ==
    LET totalFragments == Len(data) \div FragmentSize
    IN  [k \in 1..totalFragments |->
            LET start == (k - 1) * FragmentSize
                end   == Min(start + FragmentSize, Len(data))
            IN  [Hash           |-> HashOf(SubSeq(data, start + 1, end)),
                 Data           |-> SubSeq(data, start + 1, end),
                 Index          |-> k - 1,
                 TotalFragments |-> totalFragments,
                 Filename       |-> filepath]]

\* FragmentManager.FragmentFile once the file has been read into data
\* (fragment.go:45-67).  Element k of the result is the fragment of the loop's
\* iteration i = k - 1.
FragmentFile(data, filepath, FragmentSize) ==
    LET totalFragments == (Len(data) + FragmentSize - 1) \div FragmentSize
    IN  [k \in 1..totalFragments |->
            LET start == (k - 1) * FragmentSize
                end   == Min(start + FragmentSize, Len(data))
            IN  [Hash           |-> HashOf(SubSeq(data, start + 1, end)),
                 Data           |-> SubSeq(data, start + 1, end),
                 Index          |-> k - 1,
                 TotalFragments |-> totalFragments,
                 Filename       |-> filepath]]

\* AssembleFile's sort left out: the slice stays in the order it came in.
SortedByIndex_Unsorted(fragments) == {fragments}

\* sort.Slice(fragments, less by Index) (fragment.go:77-79): the sort is not
\* stable, so every reordering of the slice that is ascending in Index is a
\* possible result.
SortedByIndex(fragments) ==
    {s \in {[k \in 1..Len(fragments) |-> fragments[p[k]]] :
                p \in Permutations(1..Len(fragments))} :
        \A k \in 1..(Len(s) - 1) : s[k].Index <= s[k + 1].Index}

\* No file at the output path.
NoFile == <<-1>>

\* What the filesystem does to one AssembleFile call: nothing goes wrong,
\* os.Create fails, or the Write of element at (1-based) fails.
IOFaults(n) ==
    {[kind |-> "none", at |-> 0], [kind |-> "create", at |-> 0]}
        \cup {[kind |-> "write", at |-> k] : k \in 1..n}

\* AssembleFile without the comparison of the count with TotalFragments.
AssembleFile_NoCountCheck(fragments, sorted, fault) ==
    IF Len(fragments) = 0
    THEN [err |-> "no hay fragmentos", out |-> NoFile, fragments |-> fragments]
    ELSE IF fault.kind = "create"
    THEN [err |-> "error creando archivo", out |-> NoFile, fragments |-> sorted]
    ELSE IF fault.kind = "write"
    THEN [err |-> "error escribiendo fragmento",
          out |-> ConcatData(SubSeq(sorted, 1, fault.at - 1)),
          fragments |-> sorted]
    ELSE [err |-> "nil", out |-> ConcatData(sorted), fragments |-> sorted]

\* FragmentManager.AssembleFile (fragment.go:71-99).  fragments is the
\* caller's slice, sorted the result sort.Slice leaves in it, fault what the
\* filesystem does.  The result: the error returned, the content of the
\* output file afterwards (NoFile: it was not created) and the caller's
\* slice afterwards.
AssembleFile(fragments, sorted, fault) ==
    IF Len(fragments) = 0
    THEN [err |-> "no hay fragmentos", out |-> NoFile, fragments |-> fragments]
    ELSE IF Len(sorted) # sorted[1].TotalFragments
    THEN [err |-> "fragmentos incompletos", out |-> NoFile, fragments |-> sorted]
    ELSE IF fault.kind = "create"
    THEN [err |-> "error creando archivo", out |-> NoFile, fragments |-> sorted]
    ELSE IF fault.kind = "write"
    THEN [err |-> "error escribiendo fragmento",
          out |-> ConcatData(SubSeq(sorted, 1, fault.at - 1)),
          fragments |-> sorted]
    ELSE [err |-> "nil", out |-> ConcatData(sorted), fragments |-> sorted]

\* --------------------------------------------------------------- variables
VARIABLES
    \* the fragmenter under test (SpecFrag)
    fragmentSize,   \* FragmentManager.FragmentSize
    fileBytes,      \* the content of the file at the path given to FragmentFile
    fpc,            \* where the caller is: "file", "readfail", "fragmented", "assembled"
    produced,       \* what FragmentFile returned
    frags,          \* the caller's slice, the one handed to AssembleFile
    arg,            \* the caller's slice as it was when AssembleFile was entered
    edits,          \* how many times the caller's slice was altered
    ioFault,        \* what the filesystem did to the AssembleFile call
    outFile,        \* the content of the file at outputPath
    asmErr          \* the error AssembleFile returned

fragVars == <<fragmentSize, fileBytes, fpc, produced, frags, arg, edits,
              ioFault, outFile, asmErr>>

VARIABLES
    \* the node (Spec)
    StoredFragments,  \* P2PNode.StoredFragments: hash -> Fragment
    FileMetadata,     \* P2PNode.FileMetadata: filename -> FileInfo
    dht,              \* the records of the DHT: key -> value bytes
    up,               \* the UploadFile calls: position and locals of each
    hd,               \* the inbound streams: position and locals of each handler
    crashed           \* the Go runtime has ended the process with a fatal error

nodeVars == <<StoredFragments, FileMetadata, dht, up, hd, crashed>>

vars == <<fragVars, nodeVars>>

\* The path of the file the fragmenter is run on.
FragPath == "f"

\* The empty map.
EmptyMap == [x \in {} |-> 0]

Calls == 1..MaxUploads
Streams == 1..MaxStreams

IdleCall == [pc |-> "idle", filepath |-> "", fragments |-> <<>>, i |-> 0,
             ret |-> "nil"]
NoResponse == [Hash |-> <<>>, Data |-> <<>>, Found |-> FALSE]
OpenStream == [pc |-> "open", req |-> <<>>, response |-> NoResponse,
               sent |-> FALSE]

\* NewP2PNode (main.go:96-105): both maps empty, the handler registered, no
\* call made and no stream handled yet.
InitNode ==
    /\ StoredFragments = EmptyMap
    /\ FileMetadata = EmptyMap
    /\ dht = EmptyMap
    /\ up = [t \in Calls |-> IdleCall]
    /\ hd = [s \in Streams |-> OpenStream]
    /\ crashed = FALSE

\* The fragmenter's variables while the node runs.
FragIdle ==
    /\ fragmentSize = NodeFragmentSize
    /\ fileBytes = <<>>
    /\ fpc = "off"
    /\ produced = <<>>
    /\ frags = <<>>
    /\ arg = <<>>
    /\ edits = 0
    /\ ioFault = [kind |-> "none", at |-> 0]
    /\ outFile = NoFile
    /\ asmErr = "nil"

InitFrag ==
    /\ InitNode
    /\ fragmentSize \in 1..MaxFragmentSize
    /\ fileBytes \in BytesUpTo(MaxFileLen)
    /\ fpc = "file"
    /\ produced = <<>>
    /\ frags = <<>>
    /\ arg = <<>>
    /\ edits = 0
    /\ ioFault = [kind |-> "none", at |-> 0]
    /\ outFile = NoFile
    /\ asmErr = "nil"

\* FragmentFile returns the fragments of the file (fragment.go:33-68).
FragFragmentOk ==
    /\ fpc = "file"
    /\ produced' = FragmentFile(fileBytes, FragPath, fragmentSize)
    /\ frags' = produced'
    /\ fpc' = "fragmented"
    /\ UNCHANGED <<fragmentSize, fileBytes, arg, edits, ioFault, outFile, asmErr>>
    /\ UNCHANGED nodeVars

\* os.Open or io.ReadAll fails: FragmentFile returns nil and an error
\* (fragment.go:34-43).
FragFragmentReadError ==
    /\ fpc = "file"
    /\ fpc' = "readfail"
    /\ UNCHANGED <<fragmentSize, fileBytes, produced, frags, arg, edits,
                   ioFault, outFile, asmErr>>
    /\ UNCHANGED nodeVars

\* Between the two calls the slice is the caller's: a fragment is lost,
RemoveAt(s, k) == SubSeq(s, 1, k - 1) \o SubSeq(s, k + 1, Len(s))

FragDrop ==
    /\ fpc = "fragmented"
    /\ edits < MaxEdits
    /\ \E k \in 1..Len(frags) : frags' = RemoveAt(frags, k)
    /\ edits' = edits + 1
    /\ UNCHANGED <<fragmentSize, fileBytes, fpc, produced, arg, ioFault,
                   outFile, asmErr>>
    /\ UNCHANGED nodeVars

\* a fragment arrives in the place of another,
FragDuplicate ==
    /\ fpc = "fragmented"
    /\ edits < MaxEdits
    /\ \E k, j \in 1..Len(frags) :
          /\ k # j
          /\ frags[k] # frags[j]
          /\ frags' = [frags EXCEPT ![j] = frags[k]]
    /\ edits' = edits + 1
    /\ UNCHANGED <<fragmentSize, fileBytes, fpc, produced, arg, ioFault,
                   outFile, asmErr>>
    /\ UNCHANGED nodeVars

\* two fragments arrive in the other order,
FragSwap ==
    /\ fpc = "fragmented"
    /\ edits < MaxEdits
    /\ \E k, j \in 1..Len(frags) :
          /\ k < j
          /\ frags' = [frags EXCEPT ![k] = frags[j], ![j] = frags[k]]
    /\ edits' = edits + 1
    /\ UNCHANGED <<fragmentSize, fileBytes, fpc, produced, arg, ioFault,
                   outFile, asmErr>>
    /\ UNCHANGED nodeVars

\* or the data of a fragment is changed while its Hash field stays.
FragTamper ==
    /\ fpc = "fragmented"
    /\ edits < MaxEdits
    /\ \E k \in 1..Len(frags) :
       \E d \in BytesUpTo(fragmentSize) \ {frags[k].Data} :
          frags' = [frags EXCEPT ![k].Data = d]
    /\ edits' = edits + 1
    /\ UNCHANGED <<fragmentSize, fileBytes, fpc, produced, arg, ioFault,
                   outFile, asmErr>>
    /\ UNCHANGED nodeVars

\* AssembleFile(frags, outputPath) runs to its return (fragment.go:71-99).
FragAssemble ==
    /\ fpc = "fragmented"
    /\ \E sorted \in SortedByIndex(frags) :
       \E fault \in IOFaults(Len(frags)) :
          LET r == AssembleFile(frags, sorted, fault)
          IN  /\ arg' = frags
              /\ frags' = r.fragments
              /\ outFile' = r.out
              /\ asmErr' = r.err
              /\ ioFault' = fault
    /\ fpc' = "assembled"
    /\ UNCHANGED <<fragmentSize, fileBytes, produced, edits>>
    /\ UNCHANGED nodeVars

NextFrag ==
    \/ FragFragmentOk
    \/ FragFragmentReadError
    \/ FragDrop
    \/ FragDuplicate
    \/ FragSwap
    \/ FragTamper
    \/ FragAssemble

SpecFrag == InitFrag /\ [][NextFrag]_vars

\* -------------------------------------------------------------- main.go
\* The paths UploadFile is called with.
Filenames == {"a", "b"}

\* m[k] = v of a Go map.
MapPut(m, k, v) == [x \in DOMAIN m \cup {k} |-> IF x = k THEN v ELSE m[x]]

\* FileInfo{Filename, FragmentHashes, TotalFragments} as UploadFile builds it
\* from the fragments (main.go:149-162).
FileInfoOf(filename, fragments) ==
    [Filename       |-> filename,
     FragmentHashes |-> [k \in 1..Len(fragments) |-> fragments[k].Hash],
     TotalFragments |-> Len(fragments)]

\* json.Marshal(fileInfo) (main.go:165): the object with the struct's fields
\* in their order.
Marshal(fileInfo) ==
    <<"{", "Filename", fileInfo.Filename,
           "FragmentHashes", fileInfo.FragmentHashes,
           "TotalFragments", fileInfo.TotalFragments, "}">>

\* cid.NewCidV1(cid.Raw, mh.Sum([]byte(filename), SHA2_256)).String()
\* (main.go:170-175): the DHT key, a function of the filename alone.
CidString(filename) == <<"cidv1", "raw", "sha2-256", filename>>

\* The statement a call or a handler is at touches the map StoredFragments
\* (main.go:154 writes it, main.go:128 reads it) or FileMetadata (main.go:163
\* writes it).  No lock orders these statements, so two of them at which two
\* tasks stand at once may run at the same time.
WritingStore(t) == up[t].pc = "store"
WritingCatalog(t) == up[t].pc = "catalog"
ReadingStore(s) == hd[s].pc = "lookup"

\* The calls and streams that have begun, and whether one more may: call t
\* (stream s) is the t-th call made (the s-th stream opened).
TasksStarted ==
    Cardinality({t \in Calls : up[t].pc # "idle"})
        + Cardinality({s \in Streams : hd[s].pc # "open"})
MayStartCall(t) ==
    /\ up[t].pc = "idle"
    /\ \A t2 \in Calls : t2 < t => up[t2].pc # "idle"
    /\ TasksStarted < MaxTasks
MayOpenStream(s) ==
    /\ hd[s].pc = "open"
    /\ \A s2 \in Streams : s2 < s => hd[s2].pc # "open"
    /\ TasksStarted < MaxTasks

\* What an unordered write of a Go map does when another write of the map
\* runs at the same time: the runtime ends the process ("fatal error:
\* concurrent map writes"), or does not notice, and then the write lands or
\* is lost.  Once the process has ended no task takes a step.
RacyWriteOutcomes == {"applied", "lost", "fatal"}

\* UploadFile, did it write the catalog entry before it fragments the file: a
\* failed read returns with an entry of no fragments left in FileMetadata.
UploadReadError_CatalogFirst(t) ==
    /\ ~crashed
    /\ MayStartCall(t)
    /\ \E filepath \in Filenames :
          /\ up' = [up EXCEPT ![t] = [@ EXCEPT !.pc = "returned",
                                               !.filepath = filepath,
                                               !.ret = "error leyendo archivo"]]
          /\ FileMetadata' = MapPut(FileMetadata, filepath,
                                    FileInfoOf(filepath, <<>>))
    /\ UNCHANGED <<StoredFragments, dht, hd, crashed>>
    /\ UNCHANGED fragVars

\* UploadFile is called and FragmentFile fails (main.go:143-146).
UploadReadError(t) ==
    /\ ~crashed
    /\ MayStartCall(t)
    /\ \E filepath \in Filenames :
          up' = [up EXCEPT ![t] = [@ EXCEPT !.pc = "returned",
                                            !.filepath = filepath,
                                            !.ret = "error leyendo archivo"]]
    /\ UNCHANGED <<StoredFragments, FileMetadata, dht, hd, crashed>>
    /\ UNCHANGED fragVars

\* UploadFile is called, FragmentFile returns the fragments of the file as
\* it is read, and the call reaches the loop (main.go:143-152).
UploadFragment(t) ==
    /\ ~crashed
    /\ MayStartCall(t)
    /\ \E filepath \in Filenames :
       \E data \in BytesUpTo(NodeMaxFileLen) :
          LET fragments == FragmentFile(data, filepath, NodeFragmentSize)
          IN  up' = [up EXCEPT ![t] =
                       [@ EXCEPT !.pc = IF Len(fragments) = 0 THEN "catalog"
                                        ELSE "store",
                                 !.filepath = filepath,
                                 !.fragments = fragments,
                                 !.i = 0]]
    /\ UNCHANGED <<StoredFragments, FileMetadata, dht, hd, crashed>>
    /\ UNCHANGED fragVars

\* One iteration of the loop: n.StoredFragments[fragment.Hash] = fragment
\* (main.go:152-155).
UploadStore(t) ==
    /\ ~crashed
    /\ up[t].pc = "store"
    /\ LET fragment == up[t].fragments[up[t].i + 1]
           racing == \E t2 \in Calls \ {t} : WritingStore(t2)
       IN  \E outcome \in IF racing THEN RacyWriteOutcomes ELSE {"applied"} :
             IF outcome = "fatal"
             THEN /\ crashed' = TRUE
                  /\ UNCHANGED <<StoredFragments, up>>
             ELSE /\ StoredFragments' =
                       IF outcome = "applied"
                       THEN MapPut(StoredFragments, fragment.Hash, fragment)
                       ELSE StoredFragments
                  /\ up' = [up EXCEPT ![t] =
                              [@ EXCEPT !.i = @ + 1,
                                        !.pc = IF up[t].i + 1 = Len(up[t].fragments)
                                               THEN "catalog" ELSE "store"]]
                  /\ UNCHANGED crashed
    /\ UNCHANGED <<FileMetadata, dht, hd>>
    /\ UNCHANGED fragVars

\* n.FileMetadata[filename] = fileInfo (main.go:158-163).
UploadCatalog(t) ==
    /\ ~crashed
    /\ up[t].pc = "catalog"
    /\ LET fileInfo == FileInfoOf(up[t].filepath, up[t].fragments)
           racing == \E t2 \in Calls \ {t} : WritingCatalog(t2)
       IN  \E outcome \in IF racing THEN RacyWriteOutcomes ELSE {"applied"} :
             IF outcome = "fatal"
             THEN /\ crashed' = TRUE
                  /\ UNCHANGED <<FileMetadata, up>>
             ELSE /\ FileMetadata' =
                       IF outcome = "applied"
                       THEN MapPut(FileMetadata, up[t].filepath, fileInfo)
                       ELSE FileMetadata
                  /\ up' = [up EXCEPT ![t] = [@ EXCEPT !.pc = "publish"]]
                  /\ UNCHANGED crashed
    /\ UNCHANGED <<StoredFragments, dht, hd>>
    /\ UNCHANGED fragVars

\* json.Marshal or mh.Sum returns an error (main.go:165-173).
UploadEncodeError(t) ==
    /\ ~crashed
    /\ up[t].pc = "publish"
    /\ \E e \in {"error codificando metadatos del archivo",
                 "error generando hash para archivo"} :
          up' = [up EXCEPT ![t] = [@ EXCEPT !.pc = "returned", !.ret = e]]
    /\ UNCHANGED <<StoredFragments, FileMetadata, dht, hd, crashed>>
    /\ UNCHANGED fragVars

\* DHT.PutValue returns an error (main.go:175-178).
UploadPutError(t) ==
    /\ ~crashed
    /\ up[t].pc = "publish"
    /\ up' = [up EXCEPT ![t] =
                [@ EXCEPT !.pc = "returned",
                          !.ret = "error almacenando metadatos del archivo"]]
    /\ UNCHANGED <<StoredFragments, FileMetadata, dht, hd, crashed>>
    /\ UNCHANGED fragVars

\* The metadata is serialized, the key derived, DHT.PutValue stores the record
\* and UploadFile returns nil (main.go:165-181).
UploadPublish(t) ==
    /\ ~crashed
    /\ up[t].pc = "publish"
    /\ LET fileInfo == FileInfoOf(up[t].filepath, up[t].fragments)
       IN  dht' = MapPut(dht, CidString(up[t].filepath), Marshal(fileInfo))
    /\ up' = [up EXCEPT ![t] = [@ EXCEPT !.pc = "returned", !.ret = "nil"]]
    /\ UNCHANGED <<StoredFragments, FileMetadata, hd, crashed>>
    /\ UNCHANGED fragVars

\* The hashes a request may name: those of every chunk a file of the model
\* can have, and the hash of the empty chunk, which no fragment has.
RequestHashes == {HashOf(d) : d \in BytesUpTo(NodeFragmentSize)}

\* The handler, did it answer a request it could not decode: a response is
\* written before the stream is closed.
HandleDecodeError_Responds(s) ==
    /\ ~crashed
    /\ MayOpenStream(s)
    /\ hd' = [hd EXCEPT ![s] = [@ EXCEPT !.pc = "closed", !.sent = TRUE]]
    /\ UNCHANGED <<StoredFragments, FileMetadata, dht, up, crashed>>
    /\ UNCHANGED fragVars

\* decoder.Decode fails: logged, the stream closed by the deferred Close,
\* nothing sent (main.go:112-120).
HandleDecodeError(s) ==
    /\ ~crashed
    /\ MayOpenStream(s)
    /\ hd' = [hd EXCEPT ![s] = [@ EXCEPT !.pc = "closed"]]
    /\ UNCHANGED <<StoredFragments, FileMetadata, dht, up, crashed>>
    /\ UNCHANGED fragVars

\* decoder.Decode yields the request and the response is initialised
\* (main.go:115-126).
HandleDecode(s) ==
    /\ ~crashed
    /\ MayOpenStream(s)
    /\ \E h \in RequestHashes :
          hd' = [hd EXCEPT ![s] =
                   [@ EXCEPT !.pc = "lookup",
                             !.req = h,
                             !.response = [Hash |-> h, Data |-> <<>>,
                                           Found |-> FALSE]]]
    /\ UNCHANGED <<StoredFragments, FileMetadata, dht, up, crashed>>
    /\ UNCHANGED fragVars

\* The request looked up, were req one variable of the node instead of a local
\* of each handler: the request decoded last among the handlers in flight.
RequestOf_Shared(s) ==
    hd[CHOOSE x \in Streams :
          /\ hd[x].pc = "lookup"
          /\ \A y \in Streams : hd[y].pc = "lookup" => y <= x].req

\* The request the handler of stream s looks up: its own local req.
RequestOf(s) == hd[s].req

\* What the lookup of main.go:128-131 leaves in the response when no write of
\* the map runs at the same time.
Lookup(response, hash, store) ==
    IF hash \in DOMAIN store
    THEN [response EXCEPT !.Data = store[hash].Data, !.Found = TRUE]
    ELSE response

\* What it leaves when a write of the map runs at the same time and the
\* runtime does not notice: the key is seen or missed, and an element seen
\* half written has the Data of the zero Fragment.
RacyLookups(response, hash, store) ==
    {response,
     [response EXCEPT !.Found = TRUE],
     Lookup(response, hash, store)}

\* The handler, did its lookup leave an element behind for a hash it misses
\* (as an indexing that inserts the zero value would): the store gains the
\* zero Fragment under the requested hash.
HandleLookup_Inserts(s) ==
    /\ ~crashed
    /\ hd[s].pc = "lookup"
    /\ \E sent \in BOOLEAN :
          hd' = [hd EXCEPT ![s] =
                   [@ EXCEPT !.pc = "closed",
                             !.response = Lookup(hd[s].response, RequestOf(s),
                                                 StoredFragments),
                             !.sent = sent]]
    /\ StoredFragments' =
          IF RequestOf(s) \in DOMAIN StoredFragments
          THEN StoredFragments
          ELSE MapPut(StoredFragments, RequestOf(s),
                      [Hash |-> <<>>, Data |-> <<>>, Index |-> 0,
                       TotalFragments |-> 0, Filename |-> ""])
    /\ UNCHANGED <<FileMetadata, dht, up, crashed>>
    /\ UNCHANGED fragVars

\* The rest of the handler from the lookup on: fragment, exists :=
\* n.StoredFragments[req.Hash] and the two assignments (main.go:128-131),
\* then encoder.Encode(response) writes the response to the stream, or fails
\* and is logged, and the deferred Close closes the stream (main.go:134-138,
\* 112).  Only the lookup touches what the tasks share.
HandleLookup(s) ==
    /\ ~crashed
    /\ hd[s].pc = "lookup"
    /\ LET racing == \E t \in Calls : WritingStore(t)
       IN  \/ /\ \E r \in {Lookup(hd[s].response, RequestOf(s), StoredFragments)}
                            \cup (IF racing
                                  THEN RacyLookups(hd[s].response, RequestOf(s),
                                                   StoredFragments)
                                  ELSE {}) :
                    \/ hd' = [hd EXCEPT ![s] = [@ EXCEPT !.pc = "closed",
                                                         !.response = r,
                                                         !.sent = TRUE]]
                    \/ hd' = [hd EXCEPT ![s] = [@ EXCEPT !.pc = "closed",
                                                         !.response = r]]
              /\ UNCHANGED crashed
           \/ /\ racing
              /\ crashed' = TRUE
              /\ UNCHANGED hd
    /\ UNCHANGED <<StoredFragments, FileMetadata, dht, up>>
    /\ UNCHANGED fragVars

Init == InitNode /\ FragIdle

Next ==
    \/ \E t \in Calls : UploadReadError(t)
    \/ \E t \in Calls : UploadFragment(t)
    \/ \E t \in Calls : UploadStore(t)
    \/ \E t \in Calls : UploadCatalog(t)
    \/ \E t \in Calls : UploadEncodeError(t)
    \/ \E t \in Calls : UploadPutError(t)
    \/ \E t \in Calls : UploadPublish(t)
    \/ \E s \in Streams : HandleDecodeError(s)
    \/ \E s \in Streams : HandleDecode(s)
    \/ \E s \in Streams : HandleLookup(s)

Spec == Init /\ [][Next]_vars

\* The loop of main.go:152-155 run to its end by a call on its own: the
\* fragments stored under their hashes, in order.
RECURSIVE StoreAll(_, _)
StoreAll(store, fragments) ==
    IF fragments = <<>>
    THEN store
    ELSE StoreAll(MapPut(store, Head(fragments).Hash, Head(fragments)),
                  Tail(fragments))

\* The file a node has uploaded before: its path and its bytes then.
EarlierPath == "a"
EarlierData == <<0>>

\* A node on which UploadFile(EarlierPath) has run alone and returned nil
\* (main.go:141-181): the fragments stored, the catalog entry written, the
\* record put; no call or handler in progress.
InitReupload ==
    /\ LET fragments == FragmentFile(EarlierData, EarlierPath, NodeFragmentSize)
           fileInfo == FileInfoOf(EarlierPath, fragments)
       IN  /\ StoredFragments = StoreAll(EmptyMap, fragments)
           /\ FileMetadata = MapPut(EmptyMap, EarlierPath, fileInfo)
           /\ dht = MapPut(EmptyMap, CidString(EarlierPath), Marshal(fileInfo))
    /\ up = [t \in Calls |-> IdleCall]
    /\ hd = [s \in Streams |-> OpenStream]
    /\ crashed = FALSE
    /\ FragIdle

SpecReupload == InitReupload /\ [][Next]_vars

\* The scheduler runs every goroutine that can run: a handler that has decoded
\* its request goes on to the lookup, the write of the response and the
\* deferred Close (main.go:128-138), the write of the stream returning.
SpecFair == Spec /\ \A s \in Streams : WF_vars(HandleLookup(s))

\* ------------------------------------------------------------------ claims
\* AssembleFile has returned, having been given the slice arg.
Assembled == fpc = "assembled"

\* The index values of a fragment list are exactly 0..N-1, each once.
IndicesComplete(fragments) ==
    /\ {fragments[k].Index : k \in 1..Len(fragments)} = 0..(Len(fragments) - 1)
    /\ \A k, j \in 1..Len(fragments) :
          fragments[k].Index = fragments[j].Index => k = j

\* The list holds some of the fragments FragmentFile returned, each at most
\* once, in any order, and not all of them.
StrictSubsetOfProduced(fragments) ==
    /\ \A k \in 1..Len(fragments) :
          \E j \in 1..Len(produced) : fragments[k] = produced[j]
    /\ \A k, j \in 1..Len(fragments) : fragments[k] = fragments[j] => k = j
    /\ Len(fragments) < Len(produced)

\* C1: for every file content, the zero-byte file included, and every
\* fragment size, AssembleFile on what FragmentFile returned succeeds (the
\* filesystem permitting) and writes exactly the bytes of the file.
C1_RoundTripIdentity ==
    (Assembled /\ arg = produced /\ ioFault.kind = "none")
        => (asmErr = "nil" /\ outFile = fileBytes)

\* C2: when the data of a fragment handed to AssembleFile no longer has the
\* hash recorded in the fragment, AssembleFile returns an error and writes no
\* output, whatever the filesystem does.  (The code has no integrity error of
\* its own: any error counts; the runs in which the filesystem fails are left
\* aside.)
C2_AssembleRejectsTampered ==
    (/\ Assembled
     /\ ioFault.kind = "none"
     /\ \E k \in 1..Len(arg) : arg[k].Hash # HashOf(arg[k].Data))
        => (asmErr # "nil" /\ outFile = NoFile)

\* C3: when the index values of the list handed to AssembleFile are not
\* exactly 0..N-1, each once, AssembleFile returns an error and writes no
\* output.  (The runs in which the filesystem fails are left aside.)
C3_AssembleRejectsGapsAndDuplicates ==
    (Assembled /\ ioFault.kind = "none" /\ ~IndicesComplete(arg))
        => (asmErr # "nil" /\ outFile = NoFile)

\* C4: given a strict subset, the empty one included, of the fragments
\* FragmentFile returned for a file, AssembleFile returns an error and writes
\* no output.
C4_AssembleRejectsStrictSubset ==
    (Assembled /\ StrictSubsetOfProduced(arg))
        => (asmErr # "nil" /\ outFile = NoFile)

\* AssembleFile was given two of the three fragments of a file, the later
\* first, and returned the error of the count check.
C4_Witness ==
    /\ Assembled
    /\ StrictSubsetOfProduced(arg)
    /\ Len(arg) = 2
    /\ arg[1].Index > arg[2].Index
    /\ asmErr = "fragmentos incompletos"
    /\ outFile = NoFile

\* C5: for a file of N bytes and fragment size S, FragmentFile returns
\* ceil(N/S) fragments; fragment i has Index i and TotalFragments ceil(N/S);
\* the fragments are the windows of the file in order, without gap or
\* overlap; all but the last have S bytes and the last has N mod S bytes, or
\* S when N mod S is 0.
C5_FragmentGeometry ==
    fpc \in {"fragmented", "assembled"} =>
        LET N == Len(fileBytes)
            S == fragmentSize
            n == Len(produced)
        IN  /\ n * S >= N
            /\ n > 0 => (n - 1) * S < N
            /\ \A k \in 1..n :
                  /\ produced[k].Index = k - 1
                  /\ produced[k].TotalFragments = n
                  /\ k < n => Len(produced[k].Data) = S
                  /\ k = n => Len(produced[k].Data) =
                                 (IF N % S = 0 THEN S ELSE N % S)
                  /\ \A b \in 1..Len(produced[k].Data) :
                        produced[k].Data[b] = fileBytes[(k - 1) * S + b]
            /\ ConcatData(produced) = fileBytes

\* FragmentFile has cut a file whose length is no multiple of the fragment
\* size into two fragments, the last one shorter.
C5_Witness ==
    /\ fpc = "fragmented"
    /\ Len(produced) = 2
    /\ Len(fileBytes) % fragmentSize # 0
    /\ Len(produced[2].Data) < fragmentSize

\* Every fragment FragmentFile has returned to a call and every fragment in
\* the store.
AllFragments ==
    UNION {{up[t].fragments[k] : k \in 1..Len(up[t].fragments)} : t \in Calls}
        \cup {StoredFragments[h] : h \in DOMAIN StoredFragments}

\* C6: every fragment FragmentFile produced carries the hash of its own data,
\* so two fragments, of one file or of two, have the same hash exactly when
\* they have the same data.
C6_ContentAddressing ==
    /\ \A f \in AllFragments : f.Hash = SprintfHex(Sum256(f.Data))
    /\ \A f, g \in AllFragments : (f.Hash = g.Hash) <=> (f.Data = g.Data)

\* Two calls for two paths hold fragments: one chunk occurs in both files,
\* another in one of them only.
C6_Witness ==
    \E t1, t2 \in Calls :
        /\ up[t1].filepath # up[t2].filepath
        /\ \E k \in 1..Len(up[t1].fragments), j \in 1..Len(up[t2].fragments) :
              /\ up[t1].fragments[k].Hash = up[t2].fragments[j].Hash
              /\ up[t1].fragments[k].Data = up[t2].fragments[j].Data
        /\ \E k \in 1..Len(up[t1].fragments), j \in 1..Len(up[t2].fragments) :
              /\ up[t1].fragments[k].Hash # up[t2].fragments[j].Hash
              /\ up[t1].fragments[k].Data # up[t2].fragments[j].Data

\* The handler of stream s takes its step from the lookup to the end and
\* sends a response.
Responds(s) ==
    /\ hd[s].pc = "lookup"
    /\ hd'[s].pc = "closed"
    /\ hd'[s].sent

\* C7: the response to a well-formed request for hash h echoes h; when h is a
\* key of StoredFragments at the lookup, found is true and data is what is
\* stored under h; otherwise found is false and data is empty.
C7_FragmentExchangeResult ==
    [][\A s \in Streams :
          Responds(s) =>
              /\ hd'[s].response.Hash = hd[s].req
              /\ hd[s].req \in DOMAIN StoredFragments =>
                    /\ hd'[s].response.Found
                    /\ hd'[s].response.Data = StoredFragments[hd[s].req].Data
              /\ hd[s].req \notin DOMAIN StoredFragments =>
                    /\ ~hd'[s].response.Found
                    /\ hd'[s].response.Data = <<>>]_vars

\* C8: of handlers that run at the same time for distinct hashes present in
\* the store, each sends its own hash and the data stored under it.  (The
\* handlers run among themselves: no UploadFile call stands at its write of
\* the store.)
C8_NoCrossTalk ==
    [][\A s \in Streams :
          (/\ Responds(s)
           /\ hd[s].req \in DOMAIN StoredFragments
           /\ ~\E t \in Calls : WritingStore(t)
           /\ \E s2 \in Streams \ {s} :
                 /\ hd[s2].pc = "lookup"
                 /\ hd[s2].req # hd[s].req
                 /\ hd[s2].req \in DOMAIN StoredFragments)
          => /\ hd'[s].response.Hash = hd[s].req
             /\ hd'[s].response.Found
             /\ hd'[s].response.Data = StoredFragments[hd[s].req].Data]_vars

\* Two handlers were at their lookups together, for two hashes in the store;
\* both have answered, each with its hash and the data under it.
C8_Witness ==
    /\ \A s \in {1, 2} :
          /\ hd[s].pc = "closed"
          /\ hd[s].sent
          /\ hd[s].req \in DOMAIN StoredFragments
          /\ hd[s].response.Hash = hd[s].req
          /\ hd[s].response.Found
          /\ hd[s].response.Data = StoredFragments[hd[s].req].Data
    /\ hd[1].req # hd[2].req
    /\ hd[1].response.Data # hd[2].response.Data
    /\ \A t \in Calls : up[t].pc \in {"idle", "returned"}

\* C9: no task stands at a read or a write of StoredFragments or of
\* FileMetadata while another task stands at a write of the same map.
C9_MutualExclusion ==
    \A t \in Calls :
        /\ WritingStore(t) =>
              /\ \A t2 \in Calls \ {t} : ~WritingStore(t2)
              /\ \A s \in Streams : ~ReadingStore(s)
        /\ WritingCatalog(t) =>
              \A t2 \in Calls \ {t} : ~WritingCatalog(t2)

\* Call t takes the step in which UploadFile returns nil.
ReturnsNil(t) ==
    /\ up[t].pc # "returned"
    /\ up'[t].pc = "returned"
    /\ up'[t].ret = "nil"

\* C10: when UploadFile returns nil, every fragment of the file is in
\* StoredFragments, FileMetadata holds the FileInfo of the file, and the DHT
\* holds that FileInfo, serialized, under the key of the filename.
C10_UploadSuccessComplete ==
    [][\A t \in Calls :
          ReturnsNil(t) =>
              LET fileInfo == FileInfoOf(up[t].filepath, up[t].fragments)
              IN  /\ \A k \in 1..Len(up[t].fragments) :
                        up[t].fragments[k].Hash \in DOMAIN StoredFragments'
                  /\ up[t].filepath \in DOMAIN FileMetadata'
                  /\ FileMetadata'[up[t].filepath] = fileInfo
                  /\ CidString(up[t].filepath) \in DOMAIN dht'
                  /\ dht'[CidString(up[t].filepath)] = Marshal(fileInfo)]_vars

\* Call t takes the step in which DHT.PutValue fails and UploadFile returns
\* its error.
PutFails(t) ==
    /\ up[t].pc = "publish"
    /\ up'[t].pc = "returned"
    /\ up'[t].ret = "error almacenando metadatos del archivo"

\* C11: when the DHT put of an upload fails, UploadFile returns an error,
\* every fragment of the file is in StoredFragments, FileMetadata has an entry
\* for the filename, and the call has written nothing to the DHT.
C11_PutFailureLeavesLocalState ==
    [][\A t \in Calls :
          PutFails(t) =>
              /\ up'[t].ret # "nil"
              /\ \A k \in 1..Len(up[t].fragments) :
                    up[t].fragments[k].Hash \in DOMAIN StoredFragments'
              /\ up[t].filepath \in DOMAIN FileMetadata'
              /\ dht' = dht]_vars


\* C12: for every entry E of FileMetadata, E.TotalFragments is the number of
\* hashes E lists, and the fragment stored under the hash at position i of E
\* has Index i and TotalFragments E.TotalFragments.
C12_CatalogStoreAlignment ==
    \A name \in DOMAIN FileMetadata :
        LET E == FileMetadata[name]
        IN  /\ E.TotalFragments = Len(E.FragmentHashes)
            /\ \A k \in 1..Len(E.FragmentHashes) :
                  E.FragmentHashes[k] \in DOMAIN StoredFragments =>
                      /\ StoredFragments[E.FragmentHashes[k]].Index = k - 1
                      /\ StoredFragments[E.FragmentHashes[k]].TotalFragments
                            = E.TotalFragments


\* The handler of stream s has decoded a request.
Decoded(s) == hd[s].req # <<>>

\* Stream s is closed: by the deferred Close of its handler, or with the
\* process when the runtime has ended it.
StreamClosed(s) == hd[s].pc = "closed" \/ crashed

C14_HandlerIsolation ==
    [][\A s \in Streams :
          /\ hd'[s] # hd[s] =>
                /\ StoredFragments' = StoredFragments
                /\ FileMetadata' = FileMetadata
          /\ (/\ Responds(s)
              /\ ~\E t \in Calls : WritingStore(t)
              /\ \E s2 \in Streams \ {s} :
                    hd[s2].pc = "closed" /\ ~Decoded(s2))
             => /\ hd'[s].response.Hash = hd[s].req
                /\ hd'[s].response.Found
                      <=> (hd[s].req \in DOMAIN StoredFragments)
                /\ hd'[s].response.Data =
                      IF hd[s].req \in DOMAIN StoredFragments
                      THEN StoredFragments[hd[s].req].Data
                      ELSE <<>>]_vars

\* With a file in the store and the catalog, one stream brought a request
\* that could not be decoded and was closed without a response; the other was
\* answered with the data stored under the hash it asked for.
C14_Witness ==
    \E s1, s2 \in Streams :
        /\ hd[s1].pc = "closed" /\ ~Decoded(s1) /\ ~hd[s1].sent
        /\ hd[s2].pc = "closed" /\ hd[s2].sent
        /\ hd[s2].req \in DOMAIN StoredFragments
        /\ hd[s2].response.Found
        /\ hd[s2].response.Data = StoredFragments[hd[s2].req].Data
        /\ FileMetadata # EmptyMap
        /\ ~crashed


\* C15: AssembleFile leaves the slice it was given as it was, order and
\* contents, whether it succeeds or fails.
C15_AssembleKeepsInput ==
    Assembled => frags = arg


\* The list a holds the elements of the list b, each once, in some order.
IsPermutationOf(a, b) ==
    /\ Len(a) = Len(b)
    /\ \E p \in Permutations(1..Len(b)) : a = [k \in 1..Len(b) |-> b[p[k]]]

\* The data fields of a list with indices 0..N-1, joined in ascending index
\* order.
ConcatByIndex(fragments) ==
    ConcatData([k \in 1..Len(fragments) |->
                   CHOOSE f \in {fragments[j] : j \in 1..Len(fragments)} :
                       f.Index = k - 1])

\* C16: given all the fragments of a file in any order, AssembleFile does
\* what it does given them in index order and, the file not being empty,
\* writes the data fields joined in ascending index order, which are the bytes
\* of the file.  (The filesystem permitting.)
C16_ArrivalOrderIndependence ==
    (Assembled /\ IsPermutationOf(arg, produced) /\ ioFault.kind = "none")
        => LET inOrder == AssembleFile(produced, produced, ioFault)
           IN  /\ asmErr = inOrder.err
               /\ outFile = inOrder.out
               /\ Len(arg) > 0 =>
                     /\ asmErr = "nil"
                     /\ outFile = ConcatByIndex(arg)
                     /\ outFile = fileBytes

\* AssembleFile was given the three fragments of a file, the last first and
\* the first second, their data differing, and wrote the bytes of the file.
C16_Witness ==
    /\ Assembled
    /\ IsPermutationOf(arg, produced)
    /\ Len(arg) = 3
    /\ arg[1].Index = 2
    /\ arg[2].Index = 0
    /\ arg[1].Data # arg[2].Data
    /\ ioFault.kind = "none"
    /\ outFile = fileBytes


\* C17: when a file whose name has a catalog entry from an earlier upload is
\* uploaded again with other bytes and UploadFile returns nil, FileMetadata
\* holds the new FileInfo under the filename and the DHT holds it, serialized,
\* under the key the earlier upload used, in place of the earlier record.
C17_ReuploadReplaces ==
    [][\A t \in Calls :
          (/\ ReturnsNil(t)
           /\ up[t].filepath = EarlierPath
           /\ ConcatData(up[t].fragments) # EarlierData)
          => LET fileInfo == FileInfoOf(up[t].filepath, up[t].fragments)
             IN  /\ FileMetadata'[EarlierPath] = fileInfo
                 /\ CidString(EarlierPath) \in DOMAIN dht
                 /\ dht'[CidString(EarlierPath)] = Marshal(fileInfo)
                 /\ DOMAIN dht' = DOMAIN dht]_vars


\* The hashes listed in a serialized FileInfo.
RecordHashes(record) == record[5]

\* C18: in every reachable state, every hash listed in a FileInfo of
\* FileMetadata or in a record written to the DHT is a key of StoredFragments.
C18_DiscoverableImpliesServable ==
    /\ \A name \in DOMAIN FileMetadata :
          \A k \in 1..Len(FileMetadata[name].FragmentHashes) :
              FileMetadata[name].FragmentHashes[k] \in DOMAIN StoredFragments
    /\ \A key \in DOMAIN dht :
          \A k \in 1..Len(RecordHashes(dht[key])) :
              RecordHashes(dht[key])[k] \in DOMAIN StoredFragments


\* C19: once no upload is in progress, if two or more UploadFile calls for
\* one filename with different contents have returned nil, the record in the
\* DHT under the key of the filename is the serialized FileInfo that
\* FileMetadata holds for the filename.
C19_CatalogIndexAgree ==
    (/\ \A t \in Calls : up[t].pc \in {"idle", "returned"}
     /\ ~crashed)
    => \A t1, t2 \in Calls :
          (/\ t1 # t2
           /\ up[t1].pc = "returned" /\ up[t1].ret = "nil"
           /\ up[t2].pc = "returned" /\ up[t2].ret = "nil"
           /\ up[t1].filepath = up[t2].filepath
           /\ up[t1].fragments # up[t2].fragments)
          => /\ up[t1].filepath \in DOMAIN FileMetadata
             /\ CidString(up[t1].filepath) \in DOMAIN dht
             /\ dht[CidString(up[t1].filepath)]
                   = Marshal(FileMetadata[up[t1].filepath])


\* Call t takes the step in which FragmentFile fails and UploadFile returns
\* its error.
ReadFails(t) ==
    /\ up[t].pc = "idle"
    /\ up'[t].pc = "returned"

\* C20: when FragmentFile fails, UploadFile returns an error, and
\* StoredFragments, FileMetadata and the DHT are as they were before the call.
C20_FailedReadLeavesState ==
    [][\A t \in Calls :
          ReadFails(t) =>
              /\ up'[t].ret # "nil"
              /\ StoredFragments' = StoredFragments
              /\ FileMetadata' = FileMetadata
              /\ dht' = dht]_vars

\* A call made after an upload of the same path had begun failed to read its
\* file; the upload has returned nil, and the store, the catalog and the DHT
\* hold what it wrote and nothing of the failed call.
C20_Witness ==
    \E t1, t2 \in Calls :
        /\ t1 < t2
        /\ up[t1].pc = "returned" /\ up[t1].ret = "nil"
        /\ Len(up[t1].fragments) > 0
        /\ up[t2].pc = "returned" /\ up[t2].ret = "error leyendo archivo"
        /\ up[t2].filepath = up[t1].filepath
        /\ \A k \in 1..Len(up[t1].fragments) :
              up[t1].fragments[k].Hash \in DOMAIN StoredFragments
        /\ FileMetadata[up[t1].filepath]
              = FileInfoOf(up[t1].filepath, up[t1].fragments)
        /\ dht[CidString(up[t1].filepath)]
              = Marshal(FileInfoOf(up[t1].filepath, up[t1].fragments))

====
